---- MODULE Spec2Model ----
(***************************************************************************)
(* Model of utils/system.py: the System class of the k-out-of-n            *)
(* maintenance model (stationary distribution of the warm and cold         *)
(* standby chains, availability, cost function and grid optimizer).        *)
(*                                                                         *)
(* The numbers of the analytical solver and of the cost function are      *)
(* exact rationals <<p, q>> with q > 0 in lowest terms; the value sim()    *)
(* returns is a binary64 double, rounded as the code rounds it.            *)
(* A Python value that may be None is <<>> (None) or <<v>> (the value v). *)
(* The outcome of a call is [exc |-> "none", val |-> v] when the call     *)
(* returns v and [exc |-> e, val |-> <<>>] when it raises e.              *)
(***************************************************************************)
EXTENDS Integers, Sequences, FiniteSets, TLC

VARIABLES
    sys,         \* the System object: its six attributes
    call,        \* the call made on it: name and arguments
    result,      \* what the call returned or raised
    candidates,  \* the candidate configs the loop of optimize evaluated
    sim,         \* the locals of a running sim(): clocks, repair set, queue, records
    rand,        \* the module-level random generator every sim() draws from
    runs         \* the calls of sim() that are over: arguments, events, outcome

vars == <<sys, call, result, candidates, sim, rand, runs>>

(* ----------------------------- bounds --------------------------------- *)
\* largest component count n
MaxN == 3
\* largest repairman count of a System
MaxS == 3
\* largest max_repairmen / r handed to total_cost and optimize
MaxRepairmen == 2
\* largest failure or repair rate
MaxRate == 2
\* largest unit cost
MaxCost == 1
\* largest time a random draw of a lifetime or repair time gives
MaxDraw == 2
\* largest cycles argument of sim
MaxCycles == 3
\* largest warmup_cycles argument of sim
MaxWarmup == 1
\* largest seed besides the default one
MaxSeed == 1
\* largest number of calls of sim on one System
MaxCalls == 2
\* largest number of uses of the random generator by other callers
MaxForeign == 1

(* ------------------------ rational arithmetic ------------------------- *)
Abs(x) == IF x < 0 THEN -x ELSE x

RECURSIVE GCD(_, _)
GCD(a, b) == IF b = 0 THEN a ELSE GCD(b, a % b)

Rat(p, q) == LET g == GCD(Abs(p), q) IN <<p \div g, q \div g>>

Zero == <<0, 1>>
One == <<1, 1>>
FromInt(i) == <<i, 1>>

RAdd(a, b) == Rat(a[1] * b[2] + b[1] * a[2], a[2] * b[2])
RSub(a, b) == Rat(a[1] * b[2] - b[1] * a[2], a[2] * b[2])
RMul(a, b) == Rat(a[1] * b[1], a[2] * b[2])
\* a / b for b > 0 (the callers raise ZeroDivisionError before dividing by 0)
RDiv(a, b) == Rat(a[1] * b[2], a[2] * b[1])
RLess(a, b) == a[1] * b[2] < b[1] * a[2]
RLeq(a, b) == a[1] * b[2] <= b[1] * a[2]

RECURSIVE IPow(_, _)
IPow(a, e) == IF e = 0 THEN 1 ELSE a * IPow(a, e - 1)

\* a ** e: a power of a fraction in lowest terms is in lowest terms
RPow(a, e) == <<IPow(a[1], e), IPow(a[2], e)>>

RECURSIVE factorial(_)
factorial(m) == IF m = 0 THEN 1 ELSE m * factorial(m - 1)

\* math.comb(n, j): 0 when j > n
comb(n, j) == IF j > n THEN 0 ELSE factorial(n) \div (factorial(j) * factorial(n - j))

Min(a, b) == IF a <= b THEN a ELSE b

\* sum(f[lo..hi]) of a function of rationals
RECURSIVE SumRange(_, _, _)
SumRange(f, lo, hi) == IF lo > hi THEN Zero ELSE RAdd(f[lo], SumRange(f, lo + 1, hi))

(* --------------------------- call outcomes ---------------------------- *)
None == <<>>
Some(v) == <<v>>
Ok(v) == [exc |-> "none", val |-> v]
Raise(e) == [exc |-> e, val |-> None]

(* ------------------------------ System -------------------------------- *)
\* System.__init__: stores its arguments, no validation
System(n, k, num_repairmen, failure_rate, repair_rate, cold_standby) ==
    [n |-> n, k |-> k, num_repairmen |-> num_repairmen,
     lambda_val |-> failure_rate, mu |-> repair_rate,
     cold_standby |-> cold_standby]

\* variant: the failure budget cut one state too early (j <= n - k)
cold_lambda_j_early(self, j) ==
    IF j <= self.n - self.k THEN self.k * self.lambda_val ELSE 0

\* lambda_j of the cold recursion
cold_lambda_j(self, j) ==
    IF j <= self.n - self.k + 1 THEN self.k * self.lambda_val ELSE 0

\* mu_j of the cold recursion
cold_mu_j(self, j) == Min(j, self.num_repairmen) * self.mu

\* the unnormalised vector pi[0..n] of __dist_cold_standby__
RECURSIVE cold_pi(_, _)
cold_pi(self, j) ==
    IF j = 0 THEN One
    ELSE RMul(cold_pi(self, j - 1),
              RDiv(FromInt(cold_lambda_j(self, j)), FromInt(cold_mu_j(self, j))))

cold_unnormalised(self) == [j \in 0..self.n |-> cold_pi(self, j)]

\* pi = [p / pi_sum for p in pi]
normalised(pi, pi_sum) == [j \in DOMAIN pi |-> RDiv(pi[j], pi_sum)]

cold_normalise(pi, n) == normalised(pi, SumRange(pi, 0, n))

dist_cold_standby(self) ==
    IF \E j \in 1..self.n : cold_mu_j(self, j) = 0
    THEN Raise("ZeroDivisionError")
    ELSE Ok(cold_normalise(cold_unnormalised(self), self.n))

\* variant: the saturated branch keeps the binomial weight (no s^(j-s) term)
warm_weight_binomial(self, ratio, j) ==
    RMul(FromInt(comb(self.n, j)), RPow(ratio, j))

\* the weight of state j relative to pi(0) in __dist_warm_standby__
warm_weight(self, ratio, j) ==
    LET n == self.n
        s == self.num_repairmen
    IN IF j <= s
       THEN RMul(FromInt(comb(n, j)), RPow(ratio, j))
       ELSE RMul(Rat(factorial(n), factorial(n - j) * factorial(s) * IPow(s, j - s)),
                 RPow(ratio, j))

warm_weights(self, ratio) == [j \in 0..self.n |-> warm_weight(self, ratio, j)]

\* pi[j] = weight(j) * pi_0 with pi_0 = 1 / pi_0_inverse
scaled(w, pi_0) == [j \in DOMAIN w |-> RMul(w[j], pi_0)]

\* pi_0_inverse is the sum of the weights of the states 0..n
warm_scale(w, n) == scaled(w, RDiv(One, SumRange(w, 0, n)))

dist_warm_standby(self) ==
    LET n == self.n
        s == self.num_repairmen
    IN IF self.mu = 0 THEN Raise("ZeroDivisionError")
       ELSE IF \E j \in (s + 1)..n : factorial(n - j) * factorial(s) * IPow(s, j - s) = 0
       THEN Raise("ZeroDivisionError")
       ELSE IF s > n THEN Raise("IndexError")
       ELSE Ok(warm_scale(warm_weights(self, Rat(self.lambda_val, self.mu)), n))

stationary_distribution(self) ==
    IF self.cold_standby THEN dist_cold_standby(self) ELSE dist_warm_standby(self)

\* sum of pi[i] for the i of 0..n with i <= n - k
RECURSIVE active_sum(_, _, _)
active_sum(pi, i, self) ==
    IF i > self.n THEN Zero
    ELSE RAdd(IF i <= self.n - self.k THEN pi[i] ELSE Zero, active_sum(pi, i + 1, self))

\* variant: the operational states taken as i < n - k
RECURSIVE active_sum_strict(_, _, _)
active_sum_strict(pi, i, self) ==
    IF i > self.n THEN Zero
    ELSE RAdd(IF i < self.n - self.k THEN pi[i] ELSE Zero,
              active_sum_strict(pi, i + 1, self))

sum_strict(self, d) ==
    IF d.exc # "none" THEN d ELSE Ok(active_sum_strict(d.val, 0, self))

active_time_fraction_strict(self) == sum_strict(self, stationary_distribution(self))

\* sum(...) over the distribution d, or the exception d raised
sum_active(self, d) ==
    IF d.exc # "none" THEN d ELSE Ok(active_sum(d.val, 0, self))

active_time_fraction(self) == sum_active(self, stationary_distribution(self))

\* the candidate system total_cost builds for n components
candidate_system(self, n) ==
    System(n, self.k, self.num_repairmen, self.mu, self.lambda_val, self.cold_standby)

\* variant: the candidate is evaluated by overwriting the attributes of self
caller_overwritten(self, cand) == cand

\* self after total_cost evaluated the candidate cand: the candidate is a new
\* System bound to a local name, no attribute of self is assigned
caller_after(self, cand) == self

\* self after the loop of optimize called total_cost for the candidates
\* cands[i..last]
RECURSIVE caller_after_loop(_, _, _, _)
caller_after_loop(self, cands, i, last) ==
    IF i > last THEN self
    ELSE caller_after_loop(caller_after(self, candidate_system(self, cands[i].n)),
                           cands, i + 1, last)

\* C of the warm branch: sum of (n - i) * pi[i] * component_cost
RECURSIVE warm_component_cost(_, _, _, _)
warm_component_cost(pi, i, n, component_cost) ==
    IF i > n THEN Zero
    ELSE RAdd(RMul(FromInt((n - i) * component_cost), pi[i]),
              warm_component_cost(pi, i + 1, n, component_cost))

\* C + R + D for the availability the candidate system cand gave
cost_terms(self, cand, availability, r, component_cost, repairmen_cost, downtime_cost) ==
    RAdd(RAdd(IF self.cold_standby
              THEN RMul(FromInt(self.k * component_cost), availability)
              ELSE warm_component_cost(dist_warm_standby(cand).val, 0, cand.n,
                                       component_cost),
              FromInt(repairmen_cost * r)),
         RMul(FromInt(downtime_cost), RSub(One, availability)))

\* the part of total_cost after availability = sys.active_time_fraction()
cost_of(self, cand, a, r, component_cost, repairmen_cost, downtime_cost) ==
    IF a.exc # "none" THEN a
    ELSE Ok([cost |-> cost_terms(self, cand, a.val, r,
                                 component_cost, repairmen_cost, downtime_cost),
             availability |-> a.val])

\* returns the pair (cost, availability) as a record
total_cost(self, n, r, component_cost, repairmen_cost, downtime_cost) ==
    cost_of(self, candidate_system(self, n),
            active_time_fraction(candidate_system(self, n)),
            r, component_cost, repairmen_cost, downtime_cost)

\* the (n, r) pairs in the order the nested loops of optimize visit them
grid(k, max_n, max_repairmen) ==
    LET rows == IF max_n < k THEN 0 ELSE max_n - k + 1
        cols == IF max_repairmen < 1 THEN 0 ELSE max_repairmen
    IN [i \in 1..(rows * cols) |->
            [n |-> k + ((i - 1) \div cols), r |-> ((i - 1) % cols) + 1]]

\* the dict config built for candidate (n, r) from what total_cost returned
config(n, r, tc) ==
    [components |-> Some(n), repairmen |-> Some(r),
     availability |-> Some(tc.availability), total_cost |-> Some(tc.cost)]

\* the outcomes of the total_cost calls of the loop, in order: Ok(config) for
\* each candidate evaluated, ended by the exception of the first call that raised
RECURSIVE evaluate_grid(_, _, _, _)
evaluate_next(self, cands, i, costs, tc) ==
    IF tc.exc # "none" THEN <<tc>>
    ELSE <<Ok(config(cands[i].n, cands[i].r, tc.val))>>
            \o evaluate_grid(self, cands, i + 1, costs)

evaluate_grid(self, cands, i, costs) ==
    IF i > Len(cands) THEN <<>>
    ELSE evaluate_next(self, cands, i, costs,
                       total_cost(self, cands[i].n, cands[i].r,
                                  costs[1][1], costs[2][1], costs[3][1]))

\* variant: the best candidate replaced without lowering lowest_cost
optimize_update_stale(st, cfg) ==
    [lowest_cost |-> st.lowest_cost, best_config |-> Some(cfg)]

\* variant: the comparison written cost <= lowest_cost
optimize_update_leq(st, cfg) ==
    IF st.lowest_cost = None \/ RLeq(cfg.total_cost[1], st.lowest_cost[1])
    THEN [lowest_cost |-> cfg.total_cost, best_config |-> Some(cfg)]
    ELSE st

\* the if statement of the loop body: the loop state is lowest_cost
\* (None = math.inf) and best_config (None = not yet bound)
optimize_update(st, cfg) ==
    IF st.lowest_cost = None \/ RLess(cfg.total_cost[1], st.lowest_cost[1])
    THEN [lowest_cost |-> cfg.total_cost, best_config |-> Some(cfg)]
    ELSE st

\* the loop over the outcomes evals and the final return best_config
RECURSIVE optimize_loop(_, _, _)
optimize_loop(evals, i, st) ==
    IF i > Len(evals)
    THEN IF st.best_config = None THEN Raise("UnboundLocalError")
         ELSE Ok(st.best_config[1])
    ELSE IF evals[i].exc # "none" THEN evals[i]
    ELSE optimize_loop(evals, i + 1, optimize_update(st, evals[i].val))

opt_result == [components |-> None, repairmen |-> None,
               availability |-> None, total_cost |-> None]

\* costs is <<component_cost, repairmen_cost, downtime_cost>>, each None or <<c>>
missing_cost(costs) == costs[1] = None \/ costs[2] = None \/ costs[3] = None

\* the candidates optimize evaluates
evaluations(self, max_n, max_repairmen, costs) ==
    IF missing_cost(costs) THEN <<>>
    ELSE evaluate_grid(self, grid(self.k, max_n, max_repairmen), 1, costs)

\* variant: the missing-cost check left out of the return path
optimize_from_unchecked(costs, evals) ==
    optimize_loop(evals, 1, [lowest_cost |-> None, best_config |-> None])

\* what optimize returns or raises, given the outcomes of its evaluations
optimize_from(costs, evals) ==
    IF missing_cost(costs) THEN Ok(opt_result)
    ELSE optimize_loop(evals, 1, [lowest_cost |-> None, best_config |-> None])

optimize(self, max_n, max_repairmen, costs) ==
    optimize_from(costs, evaluations(self, max_n, max_repairmen, costs))

(* ----------------------------- simulation ----------------------------- *)
\* float('inf'): the lifetime of a component that is not active
inf == -1

\* the times rand_exp(rate) = -log(random()) / rate can give for a rate > 0
Draws == 1..MaxDraw

Max(a, b) == IF a >= b THEN a ELSE b

\* seed=42, the default the callers of sim leave in place
DefaultSeed == 42
Seeds == {DefaultSeed} \cup 1..MaxSeed

\* the generator of the random module before anybody seeded it. Seeded with
\* s it gives the stream of s: stream[s] holds the values of that stream
\* drawn so far, pos the number of values drawn since the seeding. A value is
\* the time rand_exp gives at rate 1.
unseeded == [seed |-> None, pos |-> 0, stream |-> [s \in Seeds |-> <<>>], foreign |-> 0]

\* variant: the generator goes on from the state it is in
rand_seed_kept(g, s) == g

\* rand.seed(seed)
rand_seed(g, s) == [g EXCEPT !.seed = Some(s), !.pos = 0]

\* the outcomes of rand_exp on generator g: the time v drawn and the
\* generator afterwards. A seeded generator repeats the values its stream is
\* known to hold and fixes the next one when it is first drawn.
rand_exp(g) ==
    IF g.seed = None THEN {[v |-> d, g |-> g] : d \in Draws}
    ELSE IF g.pos < Len(g.stream[g.seed[1]])
    THEN {[v |-> g.stream[g.seed[1]][g.pos + 1], g |-> [g EXCEPT !.pos = @ + 1]]}
    ELSE {[v |-> d, g |-> [g EXCEPT !.pos = @ + 1, !.stream[g.seed[1]] = Append(@, d)]] :
            d \in Draws}

\* the outcomes of m calls of rand_exp in a row: the times vs in order
RECURSIVE rand_exps(_, _)
rand_exps(g, m) ==
    IF m = 0 THEN {[vs |-> <<>>, g |-> g]}
    ELSE UNION {{[vs |-> <<o.v>> \o r.vs, g |-> r.g] : r \in rand_exps(o.g, m - 1)} :
                    o \in rand_exp(g)}

RECURSIVE Sum(_, _)
Sum(seq, i) == IF i > Len(seq) THEN 0 ELSE seq[i] + Sum(seq, i + 1)

\* the locals of sim before the call; waited and served list, for the
\* components that had to wait, the order they were enqueued and the order
\* their repairs started, longest_queue is the greatest length the queue had
idle == [pc |-> "idle", cycles |-> 0, warmup_cycles |-> 0, c |-> 0,
         components_state |-> <<>>, lifetimes |-> <<>>, num_failed |-> 0,
         in_repair |-> <<>>, repair_queue |-> <<>>,
         system_state |-> [t |-> <<>>, state |-> <<>>],
         waited |-> <<>>, served |-> <<>>, longest_queue |-> 0,
         events |-> <<>>, entered |-> [seed |-> None, pos |-> 0]]

\* the lifetimes the list comprehension draws, in index order: one for each
\* component of a warm system, one for each of the first k of a cold one
first_draws(self) == IF self.cold_standby THEN Min(self.k, self.n) ELSE self.n
lifetimes_drawn(self, vs) ==
    [i \in 0..(self.n - 1) |-> IF i < Len(vs) THEN vs[i + 1] ELSE 0]

\* the locals before the loop; life[i] is the lifetime drawn for component i
\* (cold: 0=failed, 1=active, 2=standby; warm: 0=failed, 1=working)
sim_start(self, cycles, warmup_cycles, life) ==
    [idle EXCEPT
        !.pc = "loop", !.cycles = cycles, !.warmup_cycles = warmup_cycles,
        !.components_state =
            [i \in 0..(self.n - 1) |->
                IF self.cold_standby /\ i >= self.k THEN 2 ELSE 1],
        !.lifetimes =
            [i \in 0..(self.n - 1) |->
                IF self.cold_standby /\ i >= self.k THEN inf ELSE life[i]]]

\* variant: both loops run for cycles iterations
budget_cycles(self, st) == st.cycles

\* the number of iterations of the for loop
budget(self, st) ==
    IF self.cold_standby THEN st.cycles + st.warmup_cycles ELSE st.cycles + 1

\* variant: the cold system keeps failing past its failure budget
is_active_always(self, st) == TRUE

\* whether failures are collected: always in warm mode, is_active in cold mode
is_active(self, st) ==
    ~self.cold_standby \/ st.num_failed < self.n - self.k + 1

count(st, v) == Cardinality({i \in DOMAIN st.components_state : st.components_state[i] = v})

RECURSIVE failure_events(_, _, _)
failure_events(st, i, n) ==
    IF i >= n THEN <<>>
    ELSE (IF st.components_state[i] = 1 /\ st.lifetimes[i] # inf
          THEN <<[idx |-> i, t |-> st.lifetimes[i], type |-> "failure"]>>
          ELSE <<>>)
         \o failure_events(st, i + 1, n)

RECURSIVE repair_events(_, _)
repair_events(st, j) ==
    IF j > Len(st.in_repair) THEN <<>>
    ELSE <<[idx |-> st.in_repair[j].idx, t |-> st.in_repair[j].t, type |-> "repair"]>>
         \o repair_events(st, j + 1)

event_times(self, st) ==
    (IF is_active(self, st) THEN failure_events(st, 0, self.n) ELSE <<>>)
        \o repair_events(st, 1)

\* min(event_times, key=lambda x: x[1]): the first event of the least time
RECURSIVE min_event(_, _, _)
min_event(ev, i, best) ==
    IF i > Len(ev) THEN best
    ELSE min_event(ev, i + 1, IF ev[i].t < best.t THEN ev[i] ELSE best)

next_event(ev) == min_event(ev, 2, ev[1])

\* "update all timers"
advance(self, st, dt) ==
    [st EXCEPT
        !.lifetimes =
            [i \in DOMAIN st.lifetimes |->
                IF is_active(self, st) /\ st.components_state[i] = 1
                   /\ st.lifetimes[i] # inf
                THEN Max(0, st.lifetimes[i] - dt) ELSE st.lifetimes[i]],
        !.in_repair =
            [j \in DOMAIN st.in_repair |->
                [idx |-> st.in_repair[j].idx, t |-> Max(0, st.in_repair[j].t - dt)]]]

\* the system state before the event: 1 if at least k components work
sys_state(self, st) ==
    IF self.cold_standby
    THEN IF self.n - st.num_failed >= self.k THEN 1 ELSE 0
    ELSE IF count(st, 1) >= self.k THEN 1 ELSE 0

\* the test of "record state if after warmup" in iteration st.c
recording(self, st) ==
    IF self.cold_standby THEN st.c >= st.warmup_cycles ELSE st.c > st.warmup_cycles

record(self, st, dt) ==
    IF recording(self, st)
    THEN [st EXCEPT !.system_state =
                [t |-> Append(@.t, dt), state |-> Append(@.state, sys_state(self, st))]]
    ELSE st

\* the component fails; in cold mode the first standby unit is activated
\* with the lifetime dl while the system stays within its failure budget
fail_component(self, st, idx, dl) ==
    LET failed == [st EXCEPT !.components_state[idx] = 0,
                             !.num_failed = IF self.cold_standby THEN @ + 1 ELSE @]
        standby_components == {i \in DOMAIN st.components_state :
                                    failed.components_state[i] = 2}
        standby_idx == CHOOSE i \in standby_components :
                            \A o \in standby_components : i <= o
    IN IF /\ self.cold_standby /\ is_active(self, st)
          /\ failed.num_failed < self.n - self.k + 1
          /\ standby_components # {}
       THEN [failed EXCEPT !.components_state[standby_idx] = 1,
                           !.lifetimes[standby_idx] = dl]
       ELSE failed

\* variant: a repair also starts when all s repairmen are busy
repairman_free_leq(self, st) == Len(st.in_repair) <= self.num_repairmen

\* len(in_repair) < self.num_repairmen
repairman_free(self, st) == Len(st.in_repair) < self.num_repairmen

\* in_repair[idx] = repair_time
begin_repair(st, idx, repair_time) ==
    [st EXCEPT !.in_repair = Append(@, [idx |-> idx, t |-> repair_time])]

\* start the repair at once with repair time dr, or join the queue
repair_or_queue(self, st, idx, dr) ==
    IF repairman_free(self, st) THEN begin_repair(st, idx, dr)
    ELSE [st EXCEPT !.repair_queue = Append(@, idx), !.waited = Append(@, idx),
                    !.longest_queue = Max(@, Len(st.repair_queue) + 1)]

handle_failure(self, st, idx, dl, dr) ==
    repair_or_queue(self, fail_component(self, st, idx, dl), idx, dr)

\* variant: the repaired component is activated whatever the active count
restore_component_active(self, st, idx, dl) ==
    [st EXCEPT !.components_state[idx] = 1, !.lifetimes[idx] = dl,
               !.num_failed = IF self.cold_standby THEN @ - 1 ELSE @]

\* the repaired component works again with lifetime dl; in cold mode it goes
\* to standby and is activated only if fewer than k components are active
restore_component(self, st, idx, dl) ==
    IF self.cold_standby
    THEN LET repaired == [st EXCEPT !.components_state[idx] = 2, !.num_failed = @ - 1]
         IN IF count(repaired, 1) < self.k
            THEN [repaired EXCEPT !.components_state[idx] = 1, !.lifetimes[idx] = dl]
            ELSE repaired
    ELSE [st EXCEPT !.components_state[idx] = 1, !.lifetimes[idx] = dl]

\* variant: the repaired component stays in the repair set
remove_repair_never(st, idx) == st

\* del in_repair[idx]
remove_repair(st, idx) ==
    [st EXCEPT !.in_repair = SelectSeq(@, LAMBDA e : e.idx # idx)]

\* variant: the queue served from its end
pop_queue_last(q) == [next |-> q[Len(q)], rest |-> SubSeq(q, 1, Len(q) - 1)]

\* repair_queue.pop(0)
pop_queue(q) == [next |-> Head(q), rest |-> Tail(q)]

served_next(st, p, dr) ==
    [begin_repair(st, p.next, dr) EXCEPT !.repair_queue = p.rest,
                                         !.served = Append(@, p.next)]

\* "if there are components waiting, start repairing one"
serve_queue(st, dr) ==
    IF st.repair_queue = <<>> THEN st
    ELSE served_next(st, pop_queue(st.repair_queue), dr)

handle_repair(self, st, idx, dl, dr) ==
    serve_queue(remove_repair(restore_component(self, st, idx, dl), idx), dr)

\* whether handling event e draws a repair time
draws_repair_time(self, st, e) ==
    IF e.type = "failure" THEN repairman_free(self, st) ELSE st.repair_queue # <<>>

handle(self, st, e, dl, dr) ==
    IF e.type = "failure" THEN handle_failure(self, st, e.idx, dl, dr)
    ELSE handle_repair(self, st, e.idx, dl, dr)

\* whether handling event e draws a lifetime: for the standby unit a failure
\* activates (cold), for the repaired component that works again
draws_lifetime(self, st, e) ==
    IF e.type = "failure"
    THEN /\ self.cold_standby
         /\ st.num_failed + 1 < self.n - self.k + 1
         /\ \E i \in DOMAIN st.components_state : st.components_state[i] = 2
    ELSE ~self.cold_standby \/ count(st, 1) < self.k

\* the locals when event e is handled: the timers updated, the record made
observed(self, st, e) == record(self, advance(self, st, e.t), e.t)

(* --------------- binary64 arithmetic of the returned value ------------- *)
\* The recorded times are whole numbers whose sum stays below 2^11, so every
\* double the return statements produce is 0 or lies in [2^-8, 4) and is a
\* multiple of 2^-60.  Such a double x is held as <<i, a, b, c>>,
\* x = i + a / 2^20 + b / 2^40 + c / 2^60, with a, b, c below 2^20.
Limb == 2 ^ 20

FZero == <<0, 0, 0, 0>>
FOne == <<1, 0, 0, 0>>

\* the number of binary digits of a
RECURSIVE bits(_)
bits(a) == IF a = 0 THEN 0 ELSE 1 + bits(a \div 2)

\* the unit in the last place of the 53-bit significand of x, in units of
\* 2^-60: 2^(e - 52) for x in [2^e, 2^(e + 1))
ulp(x) ==
    LET e == IF x[1] > 0 THEN bits(x[1]) - 1 ELSE bits(x[2]) - 21
    IN 2 ^ Max(e + 8, 0)

\* limbs that overflowed are brought back below 2^20
carry(x) ==
    LET b == x[3] + x[4] \div Limb
        a == x[2] + b \div Limb
    IN <<x[1] + a \div Limb, a % Limb, b % Limb, x[4] % Limb>>

\* the double nearest to x + (r / d) * 2^-60, ties to the even significand:
\* the rounding of every binary64 operation
round_half_even(x, r, d) ==
    LET u == ulp(x)
        low == x[4] % u
        cmp == 2 * (low * d + r) - u * d
        up == cmp > 0 \/ (cmp = 0 /\ (x[4] \div u) % 2 = 1)
    IN carry(<<x[1], x[2], x[3], x[4] - low + (IF up THEN u ELSE 0)>>)

\* the quotient of n by d to 60 binary places, what is left over, and d
quotient(n, d) ==
    LET r0 == n % d
        r1 == (r0 * Limb) % d
        r2 == (r1 * Limb) % d
    IN [x |-> <<n \div d, (r0 * Limb) \div d, (r1 * Limb) \div d, (r2 * Limb) \div d>>,
        r |-> (r2 * Limb) % d, d |-> d]

\* p / q of two doubles holding the whole numbers p and q; the operands are
\* values when the division is made
float_div(p, q) ==
    CHOOSE z \in {round_half_even(e.x, e.r, e.d) :
                     e \in {quotient(n, d) : n \in {p}, d \in {q}}} : TRUE

\* x + y of two doubles; the operands are values when the addition is made
float_add(x, y) ==
    CHOOSE z \in {round_half_even(s, 0, 1) :
                     s \in {carry(<<a[1] + b[1], a[2] + b[2], a[3] + b[3], a[4] + b[4]>>) :
                               a \in {x}, b \in {y}}} : TRUE

\* sum(frac_time): the built-in sum adds from left to right, each running
\* total a double before the next term is added
RECURSIVE float_sum(_, _, _)
float_sum(seq, i, acc) ==
    IF i > Len(seq) THEN acc
    ELSE CHOOSE total \in {float_sum(seq, i + 1, a) : a \in {float_add(acc, seq[i])}} :
             TRUE

\* the return statements after the loop: the value 0 of no recorded time is
\* the integer 0, every other returned value is a double
sim_result(self, st) ==
    LET t == st.system_state.t
        state == st.system_state.state
        tot_time == Sum(t, 1)
        operational_time == Sum([i \in DOMAIN t |-> t[i] * state[i]], 1)
        frac_time == [i \in DOMAIN t |->
                         IF state[i] = 1 THEN float_div(t[i], tot_time) ELSE FZero]
    IN IF tot_time = 0
       THEN IF self.cold_standby THEN Ok(Zero)
            ELSE Ok(<<Zero, Zero, Zero, st.system_state>>)
       ELSE IF self.cold_standby
            THEN Ok(float_div(operational_time, tot_time))
            ELSE Ok(float_sum(frac_time, 1, FZero))

(* ------------------------------ actions ------------------------------- *)
\* argument tuples System(...) accepts, the invalid ones (k > n, s = 0,
\* a rate of 0) among them
Configs ==
    {c \in [n : 1..MaxN, k : 1..(MaxN + 1), num_repairmen : 0..MaxS,
            lambda_val : 0..MaxRate, mu : 0..MaxRate, cold_standby : BOOLEAN] :
        c.k <= c.n + 1}

Costs == 0..MaxCost
OptCosts == {None} \cup {Some(c) : c \in Costs}

\* the state after System(...) returned: __init__ accepts every argument
Init ==
    \E c \in Configs :
        /\ sys = System(c.n, c.k, c.num_repairmen, c.lambda_val, c.mu, c.cold_standby)
        /\ call = [name |-> "__init__",
                   args |-> <<c.n, c.k, c.num_repairmen, c.lambda_val, c.mu, c.cold_standby>>]
        /\ result = Ok(None)
        /\ candidates = <<>>
        /\ sim = idle
        /\ rand = unseeded
        /\ runs = <<>>

\* the callers build a System and call one method on it
\* (pages/point_a.py, pages/point_b.py, utils/test.py)
Fresh == call.name = "__init__"

StationaryDistribution ==
    /\ Fresh
    /\ call' = [name |-> "stationary_distribution", args |-> <<>>]
    /\ result' = stationary_distribution(sys)
    /\ UNCHANGED <<sys, candidates, sim, rand, runs>>

ActiveTimeFraction ==
    /\ Fresh
    /\ call' = [name |-> "active_time_fraction", args |-> <<>>]
    /\ result' = active_time_fraction(sys)
    /\ UNCHANGED <<sys, candidates, sim, rand, runs>>

\* total_cost and optimize never read self.n: as in pages/point_b.py the
\* component count handed to them is the n the System was built with
TotalCost ==
    /\ Fresh
    /\ \E r \in 1..MaxRepairmen, cc \in Costs, rc \in Costs, dc \in Costs :
        /\ call' = [name |-> "total_cost", args |-> <<sys.n, r, cc, rc, dc>>]
        /\ result' = total_cost(sys, sys.n, r, cc, rc, dc)
        /\ sys' = caller_after(sys, candidate_system(sys, sys.n))
        /\ UNCHANGED <<candidates, sim, rand, runs>>

Optimize ==
    /\ Fresh
    /\ \E max_r \in 0..MaxRepairmen, cc \in OptCosts, rc \in OptCosts, dc \in OptCosts :
        /\ call' = [name |-> "optimize", args |-> <<sys.n, max_r, cc, rc, dc>>]
        /\ candidates' = evaluations(sys, sys.n, max_r, <<cc, rc, dc>>)
        /\ result' = optimize_from(<<cc, rc, dc>>, candidates')
        /\ sys' = caller_after_loop(sys, grid(sys.k, sys.n, max_r), 1, Len(candidates'))
        /\ UNCHANGED <<sim, rand, runs>>

Next ==
    \/ StationaryDistribution
    \/ ActiveTimeFraction
    \/ TotalCost
    \/ Optimize

Spec == Init /\ [][Next]_vars

\* the calls of the analytical solver and of the cost function
SolverNext ==
    \/ StationaryDistribution
    \/ ActiveTimeFraction
    \/ TotalCost

SolverSpec == Init /\ [][SolverNext]_vars

\* the calls of the optimizer
OptimizeSpec == Init /\ [][Optimize]_vars

\* the configs a simulation is started on: at most n components required, and
\* the rates only scale the draws, so they matter through being zero or not
SimConfigs == {c \in Configs : c.k <= c.n /\ c.lambda_val <= 1 /\ c.mu <= 1}

SimInit ==
    \E c \in SimConfigs :
        /\ sys = System(c.n, c.k, c.num_repairmen, c.lambda_val, c.mu, c.cold_standby)
        /\ call = [name |-> "__init__",
                   args |-> <<c.n, c.k, c.num_repairmen, c.lambda_val, c.mu, c.cold_standby>>]
        /\ result = Ok(None)
        /\ candidates = <<>>
        /\ sim = idle
        /\ rand = unseeded
        /\ runs = <<>>

Looping == sim.pc = "loop" /\ sim.c < budget(sys, sim)

\* the entry of runs for the call that ends with outcome r
finished(r) ==
    [args |-> call.args, entered |-> sim.entered, events |-> sim.events, result |-> r]

\* sim(cycles, warmup_cycles, seed) up to the loop: the generator is seeded
\* and the first lifetimes are drawn; at a failure rate of 0 the first
\* rand_exp raises after its draw
SimCall(cycles, warmup_cycles, s) ==
    /\ call' = [name |-> "sim", args |-> <<cycles, warmup_cycles, s>>]
    /\ IF sys.lambda_val = 0
       THEN /\ result' = Raise("ZeroDivisionError")
            /\ sim' = [idle EXCEPT !.pc = "done"]
            /\ \E o \in rand_exp(rand_seed(rand, s)) : rand' = o.g
            /\ runs' = Append(runs, [args |-> <<cycles, warmup_cycles, s>>,
                                      entered |-> [seed |-> rand.seed, pos |-> rand.pos],
                                      events |-> <<>>,
                                      result |-> Raise("ZeroDivisionError")])
       ELSE /\ \E o \in rand_exps(rand_seed(rand, s), first_draws(sys)) :
                /\ sim' = [sim_start(sys, cycles, warmup_cycles, lifetimes_drawn(sys, o.vs))
                            EXCEPT !.entered = [seed |-> rand.seed, pos |-> rand.pos]]
                /\ rand' = o.g
            /\ result' = Ok(None)
            /\ UNCHANGED runs
    /\ UNCHANGED <<sys, candidates>>

\* the callers of the repository call sim(cycles=..., warmup_cycles=...) once
\* on a System and leave the seed at its default
Sim ==
    /\ Fresh
    /\ \E cycles \in 0..MaxCycles, warmup_cycles \in 0..MaxWarmup :
        SimCall(cycles, warmup_cycles, DefaultSeed)

\* the times an iteration draws, the lifetime before the repair time: none
\* where rand_exp is not called
LifetimeDraws(e) ==
    IF draws_lifetime(sys, sim, e) THEN rand_exp(rand) ELSE {[v |-> 0, g |-> rand]}
RepairDraws(e, g) ==
    IF draws_repair_time(sys, sim, e) THEN rand_exp(g) ELSE {[v |-> 0, g |-> g]}

\* one iteration of the loop for event e, st being the locals when e is
\* handled: a repair time drawn at a repair rate of 0 raises, otherwise the
\* event is handled with the drawn times
SimIteration(e, st) ==
    /\ \E dl \in LifetimeDraws(e) : \E dr \in RepairDraws(e, dl.g) :
        /\ rand' = dr.g
        /\ IF sys.mu = 0 /\ draws_repair_time(sys, sim, e)
           THEN /\ result' = Raise("ZeroDivisionError")
                /\ sim' = [sim EXCEPT !.pc = "done"]
                /\ runs' = Append(runs, finished(result'))
           ELSE /\ sim' = [handle(sys, st, e, dl.v, dr.v)
                            EXCEPT !.c = sim.c + 1, !.events = Append(@, e)]
                /\ UNCHANGED <<result, runs>>
    /\ UNCHANGED <<sys, call, candidates>>

\* the iteration when the next event e is of the given type
SimEvent(type, e) ==
    /\ e.type = type
    /\ \E st \in {observed(sys, sim, e)} : SimIteration(e, st)

\* the iteration when the events ev are collected: the next one is handled
SimNextEvent(type, ev) ==
    /\ ev # <<>>
    /\ \E e \in {next_event(ev)} : SimEvent(type, e)

SimFailure ==
    /\ Looping
    /\ \E ev \in {event_times(sys, sim)} : SimNextEvent("failure", ev)

SimRepair ==
    /\ Looping
    /\ \E ev \in {event_times(sys, sim)} : SimNextEvent("repair", ev)

\* "if no events, break the loop"
SimBreak ==
    /\ Looping
    /\ event_times(sys, sim) = <<>>
    /\ sim' = [sim EXCEPT !.pc = "break"]
    /\ UNCHANGED <<sys, call, result, candidates, rand, runs>>

\* the loop is over: the statistics are turned into the returned value
SimReturn ==
    /\ sim.pc = "break" \/ (sim.pc = "loop" /\ ~Looping)
    /\ \E r \in {sim_result(sys, sim)} :
        /\ result' = r
        /\ runs' = Append(runs, finished(r))
    /\ sim' = [sim EXCEPT !.pc = "done"]
    /\ UNCHANGED <<sys, call, candidates, rand>>

SimNext ==
    \/ Sim
    \/ SimFailure
    \/ SimRepair
    \/ SimBreak
    \/ SimReturn

SimSpec == SimInit /\ [][SimNext]_vars

\* a call of sim() runs on until it returns or raises
SimFairSpec == SimSpec /\ WF_vars(SimNext)

\* long runs of sim on two components of which one is required: with draws
\* this small the rounding of the returned sum shows after LongCycles cycles
LongCycles == 11

LongInit ==
    /\ SimInit
    /\ sys.n = 2 /\ sys.k = 1 /\ sys.lambda_val = 1 /\ sys.mu = 1

SimLong ==
    /\ Fresh
    /\ SimCall(LongCycles, 0, DefaultSeed)

LongNext ==
    \/ SimLong
    \/ SimFailure
    \/ SimRepair
    \/ SimBreak
    \/ SimReturn

LongSpec == LongInit /\ [][LongNext]_vars

\* every operation of a System: one call on a System just built
FrameNext ==
    \/ StationaryDistribution
    \/ ActiveTimeFraction
    \/ TotalCost
    \/ Optimize
    \/ Sim
    \/ SimFailure
    \/ SimRepair
    \/ SimBreak
    \/ SimReturn

FrameSpec == SimInit /\ [][FrameNext]_vars

\* no call is running on the System
Idle == Fresh \/ (call.name = "sim" /\ sim.pc = "done")

\* sim(cycles, warmup_cycles, seed) with a seed of the caller's choice; a
\* later call repeats the arguments of a call that is over
SimSeeded ==
    /\ Idle
    /\ Len(runs) < MaxCalls
    /\ \E cycles \in 0..MaxCycles, warmup_cycles \in 0..MaxWarmup, s \in Seeds :
        /\ runs # <<>> =>
                \E i \in DOMAIN runs : runs[i].args = <<cycles, warmup_cycles, s>>
        /\ SimCall(cycles, warmup_cycles, s)

\* between the calls on the System somebody else seeds the generator, as
\* every other simulation does first
RandSeed ==
    /\ Idle
    /\ rand.foreign < MaxForeign
    /\ \E s \in Seeds : rand' = [rand_seed(rand, s) EXCEPT !.foreign = @ + 1]
    /\ UNCHANGED <<sys, call, result, candidates, sim, runs>>

\* between the calls on the System somebody else draws from the generator,
\* as every other simulation goes on to do
RandRandom ==
    /\ Idle
    /\ rand.foreign < MaxForeign
    /\ \E o \in rand_exp(rand) : rand' = [o.g EXCEPT !.foreign = @ + 1]
    /\ UNCHANGED <<sys, call, result, candidates, sim, runs>>

SeedNext ==
    \/ SimSeeded
    \/ RandSeed
    \/ RandRandom
    \/ SimFailure
    \/ SimRepair
    \/ SimBreak
    \/ SimReturn

\* repeated calls of sim() on one System, the generator shared with others
SeedSpec == SimInit /\ [][SeedNext]_vars


(* ---------------------------- properties ------------------------------ *)
\* the invariant a SystemConfig is specified to satisfy
Valid(c) ==
    /\ c.n >= c.k /\ c.k >= 1 /\ c.num_repairmen >= 1
    /\ c.lambda_val > 0 /\ c.mu > 0

Returned == result.exc = "none"
Called(name) == call.name = name

\* C1: for every valid config and both modes stationary_distribution()
\* returns n+1 entries indexed 0..n, each >= 0, that sum to 1.
C1_DistributionForEveryValidConfig ==
    (Called("stationary_distribution") /\ Valid(sys)) =>
        /\ Returned
        /\ DOMAIN result.val = 0..sys.n
        /\ \A j \in 0..sys.n : RLeq(Zero, result.val[j])
        /\ SumRange(result.val, 0, sys.n) = One

\* C2: in warm mode the returned vector satisfies the balance equations of
\* the birth-death chain with up-rate (n-j)*lambda and down-rate min(j,s)*mu:
\* pi(j)*min(j,s)*mu = pi(j-1)*(n-j+1)*lambda for every j in 1..n.
C2_WarmBalance ==
    (Called("stationary_distribution") /\ ~sys.cold_standby /\ Returned) =>
        \A j \in 1..sys.n :
            RMul(result.val[j], FromInt(Min(j, sys.num_repairmen) * sys.mu))
                = RMul(result.val[j - 1], FromInt((sys.n - j + 1) * sys.lambda_val))

C2_Witness ==
    /\ Called("stationary_distribution") /\ ~sys.cold_standby /\ Returned
    /\ Valid(sys)
    /\ sys.num_repairmen >= 2 /\ sys.num_repairmen < sys.n
    /\ sys.lambda_val # sys.mu

C4_ActiveFraction ==
    (Called("active_time_fraction") /\ Returned) =>
        LET d == stationary_distribution(sys)
        IN /\ d.exc = "none"
           /\ result.val = SumRange(d.val, 0, Min(sys.n - sys.k, sys.n))
           /\ RLeq(Zero, result.val) /\ RLeq(result.val, One)

C4_Witness ==
    /\ Called("active_time_fraction") /\ Returned /\ Valid(sys)
    /\ sys.k < sys.n
    /\ RLess(Zero, result.val) /\ RLess(result.val, One)

\* C5: constructing a config with k > n, k < 1, s < 1, lambda <= 0 or
\* mu <= 0 fails with a ConfigurationError.
C5_InvalidConfigRejected ==
    (Called("__init__") /\ ~Valid(sys)) => result.exc = "ConfigurationError"

\* the repairman count and component count of a total_cost call
ArgN == call.args[1]
ArgR == call.args[2]

\* C6: the availability total_cost reports for candidate (n, s) is the
\* solver's active_time_fraction of a candidate config whose repairman
\* count is s (with candidate n, the caller's k and mode).
C6_AvailabilityUsesCandidateRepairmen ==
    (Called("total_cost") /\ Valid(sys) /\ Returned) =>
        LET a == active_time_fraction(
                    [candidate_system(sys, ArgN) EXCEPT !.num_repairmen = ArgR])
        IN a.exc = "none" /\ result.val.availability = a.val

\* C7: the candidate system has the caller's lambda as failure rate and the
\* caller's mu as repair rate: for a candidate with the caller's n and s
\* total_cost reports the caller's own active_time_fraction().
C7_CandidateKeepsRates ==
    (/\ Called("total_cost") /\ Valid(sys) /\ Returned
     /\ ArgN = sys.n /\ ArgR = sys.num_repairmen) =>
        LET a == active_time_fraction(sys)
        IN a.exc = "none" /\ result.val.availability = a.val

\* the arguments of an optimize call
MaxNArg == call.args[1]
MaxRArg == call.args[2]
CostArgs == <<call.args[3], call.args[4], call.args[5]>>
CostsGiven == \A i \in 1..3 : CostArgs[i] # None
GridN == sys.k..MaxNArg
GridR == 1..MaxRArg
GridEmpty == GridN = {} \/ GridR = {}
Evaluated(n, r) ==
    total_cost(sys, n, r, CostArgs[1][1], CostArgs[2][1], CostArgs[3][1])

\* the candidate the loop evaluated i-th
Cand(i) == candidates[i].val
\* the i-th candidate evaluated is the grid pair (n, r)
IsPair(i, n, r) == Cand(i).components = Some(n) /\ Cand(i).repairmen = Some(r)

\* C8: with three costs given and a non-empty grid, the candidate optimize
\* returns lies in the grid, carries the total cost and availability
\* evaluated for exactly its (n, s), and no pair of the grid has a strictly
\* lower evaluated total cost.
C8_OptimizeMinimal ==
    (Called("optimize") /\ CostsGiven /\ ~GridEmpty /\ Returned) =>
        LET b == result.val
        IN /\ b.components # None /\ b.repairmen # None
           /\ b.components[1] \in GridN /\ b.repairmen[1] \in GridR
           /\ Evaluated(b.components[1], b.repairmen[1])
                = Ok([cost |-> b.total_cost[1], availability |-> b.availability[1]])
           /\ \A n \in GridN, r \in GridR :
                \E i \in DOMAIN candidates :
                    /\ IsPair(i, n, r)
                    /\ ~RLess(Cand(i).total_cost[1], b.total_cost[1])

C8_Witness ==
    /\ Called("optimize") /\ CostsGiven /\ ~GridEmpty /\ Returned /\ Valid(sys)
    /\ result.val.components[1] > sys.k
    /\ \E i \in DOMAIN candidates :
            RLess(result.val.total_cost[1], Cand(i).total_cost[1])

\* C9: among the grid candidates of minimal evaluated total cost, optimize
\* returns the one with the smallest n and, among those, the smallest s.
C9_TieBreak ==
    (Called("optimize") /\ CostsGiven /\ ~GridEmpty /\ Returned) =>
        LET b == result.val
        IN \A i \in DOMAIN candidates :
            Cand(i).total_cost = b.total_cost =>
                \/ b.components[1] < Cand(i).components[1]
                \/ /\ b.components[1] = Cand(i).components[1]
                   /\ b.repairmen[1] <= Cand(i).repairmen[1]

C9_Witness ==
    /\ Called("optimize") /\ CostsGiven /\ ~GridEmpty /\ Returned /\ Valid(sys)
    /\ \E i \in DOMAIN candidates :
            /\ Cand(i).components[1] > result.val.components[1]
            /\ Cand(i).total_cost = result.val.total_cost
    /\ \E i \in DOMAIN candidates :
            RLess(result.val.total_cost[1], Cand(i).total_cost[1])

\* C10: with costs given and an empty grid (max_n < k or max_repairmen < 1)
\* optimize returns the result whose four fields are absent and does not
\* raise.
C10_EmptyGridAbsentResult ==
    (Called("optimize") /\ Valid(sys) /\ CostsGiven /\ GridEmpty) =>
        Returned /\ result.val = opt_result

\* C11: when any of the three unit costs is None, optimize returns the
\* result whose components, repairmen, availability and total_cost are all
\* absent, evaluates no candidate, and does not raise.
C11_MissingCostAbsentResult ==
    (Called("optimize") /\ ~CostsGiven) =>
        /\ Returned
        /\ result.val = opt_result
        /\ candidates = <<>>

C11_Witness ==
    /\ Called("optimize") /\ Valid(sys) /\ ~GridEmpty
    /\ CostArgs[1] # None /\ CostArgs[2] = None /\ CostArgs[3] # None
    /\ result = Ok(opt_result)

\* the candidate config the cost of (n, s) is specified on: candidate n and
\* s, the caller's k, rates and mode
SpecCandidate == System(ArgN, sys.k, ArgR, sys.lambda_val, sys.mu, sys.cold_standby)

\* the component term: component_cost * sum_j (n-j)*pi(j) in warm mode,
\* component_cost * k * availability in cold mode
SpecComponentTerm(cand, pi, availability, component_cost) ==
    IF cand.cold_standby
    THEN RMul(FromInt(component_cost * cand.k), availability)
    ELSE SumRange([j \in 0..cand.n |->
                        RMul(FromInt(component_cost * (cand.n - j)), pi[j])],
                  0, cand.n)

\* C12: total_cost returns component term + repairman_cost*s +
\* downtime_cost*(1 - availability) with pi and availability those of the
\* candidate system (n, s), and the total is >= 0 for non-negative unit costs.
C12_TotalCostFormula ==
    (/\ Called("total_cost") /\ Valid(sys) /\ Returned
     /\ stationary_distribution(SpecCandidate).exc = "none") =>
        LET pi == stationary_distribution(SpecCandidate).val
            availability == active_time_fraction(SpecCandidate).val
        IN /\ result.val.cost =
                RAdd(RAdd(SpecComponentTerm(SpecCandidate, pi, availability, call.args[3]),
                          FromInt(call.args[4] * ArgR)),
                     RMul(FromInt(call.args[5]), RSub(One, availability)))
           /\ RLeq(Zero, result.val.cost)

\* C13: a warm-standby config with s >= n (s > n included) gets, without an
\* exception, n+1 probabilities with pi(j) = C(n,j)*(lambda/mu)^j*pi(0), the
\* distribution of s = n.
C13_WarmAmpleRepairmen ==
    (/\ Called("stationary_distribution") /\ Valid(sys)
     /\ ~sys.cold_standby /\ sys.num_repairmen >= sys.n) =>
        /\ Returned
        /\ DOMAIN result.val = 0..sys.n
        /\ \A j \in 0..sys.n :
                result.val[j] =
                    RMul(RMul(FromInt(comb(sys.n, j)),
                              RPow(Rat(sys.lambda_val, sys.mu), j)),
                         result.val[0])
        /\ result = stationary_distribution([sys EXCEPT !.num_repairmen = sys.n])

\* the config of the other standby mode
OtherMode == [sys EXCEPT !.cold_standby = ~sys.cold_standby]

\* C14: for n = k and identical s, lambda, mu the warm and the cold solver
\* return the same stationary distribution.
C14_NoStandbySameModel ==
    (/\ Called("stationary_distribution") /\ Valid(sys) /\ Returned
     /\ sys.n = sys.k
     /\ stationary_distribution(OtherMode).exc = "none") =>
        result.val = stationary_distribution(OtherMode).val

\* C15: for every config with n > k the cold-standby active_time_fraction()
\* is >= the warm-standby one for identical n, k, s, lambda, mu.
C15_ColdAtLeastWarm ==
    (/\ Called("active_time_fraction") /\ Valid(sys)
     /\ sys.cold_standby /\ sys.n > sys.k) =>
        /\ Returned
        /\ active_time_fraction(OtherMode).exc = "none"
        /\ RLeq(active_time_fraction(OtherMode).val, result.val)

\* C16: for fixed n, k, lambda, mu and mode, availability(s+1) >=
\* availability(s) for every s >= 1.
C16_MonotoneInRepairmen ==
    (Called("active_time_fraction") /\ Valid(sys) /\ Returned) =>
        LET more == active_time_fraction(
                        [sys EXCEPT !.num_repairmen = sys.num_repairmen + 1])
        IN more.exc = "none" /\ RLeq(result.val, more.val)

\* C17: for fixed k, s, lambda, mu and mode, availability(n+1) >=
\* availability(n) for every n >= k.
C17_MonotoneInComponents ==
    (Called("active_time_fraction") /\ Valid(sys)) =>
        /\ Returned
        /\ LET more == active_time_fraction([sys EXCEPT !.n = sys.n + 1])
           IN more.exc = "none" /\ RLeq(result.val, more.val)

\* a simulation is between two iterations of its loop, or has left the loop
InLoop == sim.pc \in {"loop", "break"}

\* C18: in every state of sim() in both modes the number of components in
\* repair is min(number of failed components, s): never more than s, and a
\* component waits in the queue only while exactly s repairs are running.
C18_RepairsAreMinFailedS ==
    InLoop =>
        /\ Len(sim.in_repair) = Min(count(sim, 0), sys.num_repairmen)
        /\ Len(sim.in_repair) <= sys.num_repairmen
        /\ sim.repair_queue # <<>> => Len(sim.in_repair) = sys.num_repairmen

C18_Witness ==
    /\ InLoop /\ Valid(sys)
    /\ sys.num_repairmen = 2
    /\ Len(sim.in_repair) = 2
    /\ sim.repair_queue # <<>>

\* C19: the repair queue is FIFO in both modes: the components that had to
\* wait start their repairs in the order they were enqueued, a repair
\* completion starting exactly the oldest waiting one (the order of the
\* started ones followed by the queue is the order of enqueueing).
C19_QueueIsFifo ==
    sim.waited = sim.served \o sim.repair_queue

C19_Witness ==
    /\ InLoop /\ Valid(sys)
    /\ sim.longest_queue = 2
    /\ Len(sim.served) = 1 /\ Len(sim.repair_queue) = 1
    /\ sim.served[1] # sim.repair_queue[1]
    /\ \E j \in DOMAIN sim.in_repair : sim.in_repair[j].idx = sim.served[1]

\* C20: in both modes sim(cycles, warmup_cycles) leaves exactly the first
\* warmup_cycles event cycles out of the statistics and records each of the
\* following cycles event cycles: cycles intervals are recorded.
C20_RecordsCyclesIntervals ==
    (Called("sim") /\ Valid(sys) /\ sim.pc = "done" /\ Returned) =>
        /\ sim.c = sim.warmup_cycles + sim.cycles
        /\ Len(sim.system_state.t) = sim.cycles

\* the sum of the recorded time deltas
tot_time == Sum(sim.system_state.t, 1)

\* a call of sim() on a valid config is over
SimDone == Called("sim") /\ Valid(sys) /\ sim.pc = "done"

\* the recorded time in which at least k components were working
operational_time ==
    Sum([i \in DOMAIN sim.system_state.t |->
            sim.system_state.t[i] * sim.system_state.state[i]], 1)

\* doubles compare limb by limb
FLeq(x, y) ==
    \E i \in 1..5 :
        /\ \A j \in 1..(i - 1) : x[j] = y[j]
        /\ i <= 4 => x[i] < y[i]

\* rounding error allowed between two doubles, in units of 2^-60
Tolerance == 2 ^ 14

near(x, y) ==
    LET h == (x[1] - y[1]) * Limb + (x[2] - y[2])
    IN /\ Abs(h) <= 1
       /\ LET m == h * Limb + (x[3] - y[3])
          IN /\ Abs(m) <= 1
             /\ Abs(m * Limb + (x[4] - y[4])) <= Tolerance

\* C21: in both modes, when some time was recorded, sim() returns the
\* recorded time in which at least k components were working (failed count
\* before the event <= n - k) divided by all the recorded time, up to
\* rounding, and the returned value lies in [0, 1].
C21_ReturnsOperationalFraction ==
    (SimDone /\ tot_time > 0) =>
        /\ Returned
        /\ near(result.val, float_div(operational_time, tot_time))
        /\ FLeq(FZero, result.val) /\ FLeq(result.val, FOne)

\* C22: in both modes, when no time was recorded, sim() returns the scalar 0
\* and does not raise.
C22_NothingRecordedReturnsZero ==
    (SimDone /\ tot_time = 0) => result = Ok(Zero)

\* a cold-standby simulation has started
ColdSim == sys.cold_standby /\ sim.pc \in {"loop", "break", "done"} /\ sys.lambda_val # 0

\* the failed count from which the cold system stops failing
blocked_at == sys.n - sys.k + 1

\* a step that processes one event of the loop
EventStep == sim.pc = "loop" /\ sim'.pc = "loop" /\ sim'.c = sim.c + 1

\* C26 (events): in cold-standby sim() every event changes num_failed by
\* exactly one, and while num_failed >= n-k+1 the event is a repair
\* completion and no lifetime clock advances (only the repaired component,
\* when activated, gets a lifetime).
C26_BlockedStep ==
    (sys.cold_standby /\ EventStep) =>
        /\ sim'.num_failed \in {sim.num_failed - 1, sim.num_failed + 1}
        /\ sim.num_failed >= blocked_at =>
            /\ sim'.num_failed = sim.num_failed - 1
            /\ \A i \in DOMAIN sim.lifetimes :
                    \/ sim'.lifetimes[i] = sim.lifetimes[i]
                    \/ sim.components_state[i] = 0 /\ sim'.components_state[i] = 1

\* C26 (states): num_failed stays in 0..n-k+1, and for a valid config these
\* are exactly the states the cold solver gives a non-zero probability.
C26_FailedCountInSupport ==
    ColdSim =>
        /\ sim.num_failed \in 0..blocked_at
        /\ Valid(sys) =>
            LET pi == stationary_distribution(sys)
            IN /\ pi.exc = "none"
               /\ \A j \in 0..sys.n : RLess(Zero, pi.val[j]) <=> j <= blocked_at

\* C26: in cold-standby sim() no failure is processed and no lifetime clock
\* advances while num_failed >= n-k+1; num_failed stays in 0..n-k+1, changes
\* by exactly one per event, and the failed counts the simulator can be in
\* are the states to which the cold solver gives non-zero probability.
C26_ColdStopsFailing == []C26_FailedCountInSupport /\ [][C26_BlockedStep]_vars

\* the cold system is blocked after some events, with a repair running and
\* a stopped lifetime clock of an active component
C26_Witness ==
    /\ ColdSim /\ Valid(sys) /\ Looping
    /\ blocked_at = 2 /\ sim.num_failed = 2
    /\ sim.in_repair # <<>>
    /\ \E i \in DOMAIN sim.lifetimes :
            sim.components_state[i] = 1 /\ sim.lifetimes[i] > 0

\* component i goes from state a to state b in the step
Moves(i, a, b) == sim.components_state[i] = a /\ sim'.components_state[i] = b

\* C27 (states): between events the number of active components of a cold
\* simulation is min(k, n - num_failed), at most k.
C27_ActiveCount ==
    ColdSim =>
        /\ count(sim, 1) = Min(sys.k, sys.n - sim.num_failed)
        /\ count(sim, 1) <= sys.k

\* C27 (events): only an active component fails, never a standby one; a
\* failure promotes a standby unit only while num_failed < n-k+1; a repaired
\* component becomes active only if fewer than k components are active, and
\* goes to standby otherwise.
C27_PromotionStep ==
    (sys.cold_standby /\ EventStep) =>
        \A i \in DOMAIN sim.components_state :
            /\ sim'.components_state[i] = 0 => sim.components_state[i] \in {0, 1}
            /\ Moves(i, 2, 1) =>
                /\ sim'.num_failed = sim.num_failed + 1
                /\ sim'.num_failed < blocked_at
            /\ Moves(i, 0, 1) => count(sim, 1) < sys.k
            /\ Moves(i, 0, 2) => count(sim, 1) >= sys.k

\* C27: in cold-standby sim() the number of active components is
\* min(k, n - num_failed) in every state between events and never exceeds k;
\* only active components fail, a standby unit is promoted on a failure only
\* while num_failed < n-k+1, and a repaired component is promoted to active
\* only if the active count is below k.
C27_AtMostKActive == []C27_ActiveCount /\ [][C27_PromotionStep]_vars

\* a repaired component went to standby while a promoted unit is active
C27_Witness ==
    /\ ColdSim /\ Valid(sys) /\ Looping
    /\ \E i, j \in DOMAIN sim.components_state :
            /\ i < j /\ j >= sys.k
            /\ sim.components_state[i] = 2 /\ sim.lifetimes[i] # inf
            /\ sim.components_state[j] = 1

\* C28 (states): on a valid config every iteration finds an event, the loop
\* is never left through the break, and the call returns after cycles +
\* warmup_cycles events in cold mode and cycles + 1 events in warm mode.
C28_FullBudget ==
    (Called("sim") /\ Valid(sys)) =>
        /\ Looping => event_times(sys, sim) # <<>>
        /\ sim.pc # "break"
        /\ sim.pc = "done" =>
            /\ Returned
            /\ sim.c = IF sys.cold_standby THEN sim.cycles + sim.warmup_cycles
                        ELSE sim.cycles + 1

\* C28: for every valid config and finite cycles and warmup_cycles sim()
\* terminates; at every iteration an event is enabled, so the loop is never
\* left through the no-events break and processes its full cycle budget.
C28_TerminatesAfterBudget ==
    /\ []C28_FullBudget
    /\ <>(sim.pc = "done")

\* a run of several events on a single repairman is over
C28_Witness ==
    /\ SimDone /\ Returned
    /\ sys.num_repairmen = 1 /\ sys.n >= 2
    /\ sim.c >= 3 /\ sim.c = budget(sys, sim)

\* the places of component i in the repair set and in the repair queue
RepairPlaces(i) == {j \in DOMAIN sim.in_repair : sim.in_repair[j].idx = i}
QueuePlaces(i) == {j \in DOMAIN sim.repair_queue : sim.repair_queue[j] = i}

\* C29: in every state of sim() in both modes every failed component is in
\* exactly one of the repair set and the repair queue, no component is twice
\* in the queue, no working, active or standby component is in either, and
\* in cold mode num_failed is the number of components in state failed.
C29_FailedInRepairOrQueue ==
    /\ \A i \in DOMAIN sim.components_state :
            Cardinality(RepairPlaces(i)) + Cardinality(QueuePlaces(i)) =
                IF sim.components_state[i] = 0 THEN 1 ELSE 0
    /\ \A j \in DOMAIN sim.in_repair : sim.in_repair[j].idx \in DOMAIN sim.components_state
    /\ \A j \in DOMAIN sim.repair_queue : sim.repair_queue[j] \in DOMAIN sim.components_state
    /\ sys.cold_standby => sim.num_failed = count(sim, 0)

\* one failed component in repair, one waiting, after a repair completed
C29_Witness ==
    /\ InLoop /\ Valid(sys) /\ sys.cold_standby
    /\ Len(sim.in_repair) = 1 /\ Len(sim.repair_queue) = 1
    /\ sim.num_failed = 2 /\ count(sim, 1) = 1
    /\ sim.served # <<>>

\* C25: for every valid config in both modes the simulated estimate agrees
\* with the analytical availability, the relative error
\* |active_time_fraction() - sim(...)| / active_time_fraction() being below
\* 0.05: active_time_fraction() returns the positive number the error is
\* relative to.
C25_AvailabilityToCompare ==
    (Called("active_time_fraction") /\ Valid(sys)) =>
        /\ Returned
        /\ RLess(Zero, result.val)

\* C23: sim() is deterministic in its inputs: two runs with identical
\* (config, cycles, warmup_cycles, seed) produce the same sequence of events
\* and the same returned value, whatever the generator was used for before
\* each run.
C23_SameInputsSameRun ==
    \A i, j \in DOMAIN runs :
        runs[i].args = runs[j].args =>
            /\ runs[i].events = runs[j].events
            /\ runs[i].result = runs[j].result

\* two runs of several events with the same arguments, entered with the
\* generator in different states
C23_Witness ==
    /\ Valid(sys) /\ Len(runs) = 2
    /\ runs[1].args = runs[2].args
    /\ runs[1].entered # runs[2].entered
    /\ Len(runs[2].events) >= 3
    /\ runs[2].result.exc = "none"

\* C24: no operation (stationary_distribution, active_time_fraction, sim,
\* total_cost, optimize) changes the n, k, num_repairmen, failure rate,
\* repair rate or standby mode of the config it is called on; optimize
\* evaluates its candidates on fresh configs and leaves the caller's config
\* as it was.
C24_ConfigUnchanged == [][sys' = sys]_vars

\* optimize returned after evaluating several candidates, the first of them
\* with fewer components than the caller's config
C24_Witness ==
    /\ Called("optimize") /\ Valid(sys) /\ Returned
    /\ Len(candidates) >= 2
    /\ candidates[1].exc = "none"
    /\ candidates[1].val.components = Some(sys.k)
    /\ sys.k < sys.n

====
